---- MODULE Spec2Model ----
(***************************************************************************)
(* A model of surge-ping's per-session probe state machine (src/ping.rs):  *)
(* the Pinger, its correlation Cache, the detached sender task spawned by  *)
(* every ping, the receive loop raced against the timeout, and Drop.       *)
(*                                                                         *)
(* The codec (crate::icmp) and the dispatcher (crate::client) are not part *)
(* of the modelled sources; they appear as the operators Decode,           *)
(* CheckReplyPacket, MakeEchoPacket and as the environment actions         *)
(* Dispatch and DispatcherStop.                                            *)
(*                                                                         *)
(* Time is a discrete monotone clock (one unit per second); Instant::now() *)
(* reads it.                                                               *)
(***************************************************************************)
EXTENDS Integers, Sequences, FiniteSets, TLC

VARIABLES
    now,          \* the clock read by Instant::now()
    active,       \* the sessions that were constructed
    quota,        \* how many ping calls the caller of each session will make
    ops,          \* the Cache::insert and Cache::remove calls made directly on a Cache
    taken,        \* what the last of these Cache::remove calls returned
    destination,  \* Pinger.destination
    ident,        \* Pinger.ident
    size,         \* Pinger.size
    timeout,      \* Pinger.timeout
    cache,        \* Pinger.cache: HashMap<Token, Instant> (with the inserting task as ghost)
    chan,         \* Pinger.rx: the messages queued in the mpsc channel
    closed,       \* the dispatcher side of rx and of shutdown_notify is gone
    pc,           \* "idle" or "waiting" (inside timeout(recv_reply).await)
    cur,          \* the ping call in progress: seq_cnt, deadline, invocation number,
                  \* and as history what the receive loop did with the last message
                  \* it took and when the call's own sender made its insert
    result,       \* what the last ping call returned
    pings,        \* number of ping calls made so far
    senders,      \* the detached sender tasks, one per ping call
    dropped,      \* the Pinger was dropped
    dropRes       \* outcome of shutdown_notify.send(()) in Drop

vars == <<now, active, quota, ops, taken, destination, ident, size, timeout, cache, chan, closed,
          pc, cur, result, pings, senders, dropped, dropRes>>

----------------------------------------------------------------------------
(* Bounds *)

MaxTime == 2
MaxPings == 2
MaxChan == 1
DualPings == 1
MaxOps == 4

(* Program constants (Pinger::new) *)
DefaultSize == 56
DefaultTimeout == 2

Sessions == {1, 2}
Addrs == {"A", "B"}
Idents == {1, 2}
Seqs == {0, 1}
Invocations == 1 .. MaxPings

(* Token = (u16, u16) *)
Token == Idents \X Seqs

----------------------------------------------------------------------------
(* The codec, by its interface *)

MaxPayload == 64
Sizes == {DefaultSize, MaxPayload + 1}

\* make_icmpv4_echo_packet / make_icmpv6_echo_packet: rejects a size the
\* encoding cannot hold.
MakeEchoPacket(id, seq, sz) ==
    IF sz > MaxPayload
    THEN [ok |-> FALSE, err |-> "IncorrectBufferSize"]
    ELSE [ok |-> TRUE, err |-> "none"]

\* Raw datagrams the dispatcher can forward.
Reply(a, i, q) == [fam |-> 4, type |-> "EchoReply", src |-> a, id |-> i, seq |-> q]
RequestPacket == [fam |-> 4, type |-> "EchoRequest", src |-> "A", id |-> 1, seq |-> 0]
OtherPacket == [fam |-> 4, type |-> "Other", src |-> "A", id |-> 1, seq |-> 0]
ReplyPackets ==
    {Reply("A", 1, 0), Reply("A", 1, 1), Reply("A", 2, 0), Reply("B", 1, 0), Reply("B", 2, 0)}
Packets == ReplyPackets \cup {RequestPacket, OtherPacket}
NoPacket == [fam |-> 0, type |-> "none", src |-> "none", id |-> 0, seq |-> 0]

\* the address family implied by the destination (IpAddr::V4 / IpAddr::V6)
Family(addr) == IF addr \in Addrs THEN 4 ELSE 6

\* Icmpv4Packet::decode / Icmpv6Packet::decode
Decode(p, fam) ==
    IF p.fam # fam THEN [ok |-> FALSE, err |-> "MalformedPacket"]
    ELSE IF p.type = "EchoRequest" THEN [ok |-> FALSE, err |-> "EchoRequestPacket"]
    ELSE IF p.type # "EchoReply" THEN [ok |-> FALSE, err |-> "MalformedPacket"]
    ELSE [ok |-> TRUE, err |-> "none"]

\* IcmpPacket::check_reply_packet
CheckReplyPacket(p, dest, seq, id) ==
    p.src = dest /\ p.seq = seq /\ p.id = id

----------------------------------------------------------------------------
(* Cache *)

CacheNew == << >>

\* variant: an insert for a key that is present keeps the entry that is there
CacheInsertKeepFirst(c, id, seq, entry) ==
    [k \in (DOMAIN c) \cup {<<id, seq>>} |-> IF k \in DOMAIN c THEN c[k] ELSE entry]

CacheInsert(c, id, seq, entry) ==
    [k \in (DOMAIN c) \cup {<<id, seq>>} |-> IF k = <<id, seq>> THEN entry ELSE c[k]]

CacheHas(c, id, seq) == <<id, seq>> \in DOMAIN c

CacheRemove(c, id, seq) ==
    [k \in (DOMAIN c) \ {<<id, seq>>} |-> c[k]]

\* the Option<Instant> that Cache::remove returns
NoEntry == [time |-> -1, by |-> 0]
NoTaken == [some |-> FALSE, entry |-> NoEntry]
CacheTake(c, id, seq) ==
    IF CacheHas(c, id, seq) THEN [some |-> TRUE, entry |-> c[<<id, seq>>]]
    ELSE NoTaken

----------------------------------------------------------------------------
(* Values *)

NoCall == [seq |-> 0, deadline |-> 0, n |-> 0, last |-> "none", sentAt |-> -1]
\* a sender task: its captured ident and seq_cnt, and as history the number of
\* inserts it made and whether its send_to failed
NoSender == [st |-> "none", id |-> 0, seq |-> 0, inserts |-> 0, failed |-> FALSE]

Res(kind, seq, pkt, dur, by) ==
    [kind |-> kind, seq |-> seq, pkt |-> pkt, dur |-> dur, by |-> by]
NoResult == Res("none", 0, NoPacket, 0, 0)

Built(s) == s \in active /\ ~dropped[s]

----------------------------------------------------------------------------
(* Construction: Pinger::new. random() gives each session an ident; the two *)
(* sessions are taken with differing idents, default size and timeout.      *)

InitCommon ==
    /\ now = 0
    /\ ops = << >>
    /\ taken = NoTaken
    /\ destination = [s \in Sessions |-> IF s = 1 THEN "A" ELSE "B"]
    /\ ident = [s \in Sessions |-> s]
    /\ size = [s \in Sessions |-> DefaultSize]
    /\ timeout = [s \in Sessions |-> DefaultTimeout]
    /\ cache = [s \in Sessions |-> CacheNew]
    /\ chan = [s \in Sessions |-> << >>]
    /\ closed = [s \in Sessions |-> FALSE]
    /\ pc = [s \in Sessions |-> "idle"]
    /\ cur = [s \in Sessions |-> NoCall]
    /\ result = [s \in Sessions |-> NoResult]
    /\ pings = [s \in Sessions |-> 0]
    /\ senders = [s \in Sessions |-> [n \in Invocations |-> NoSender]]
    /\ dropped = [s \in Sessions |-> FALSE]
    /\ dropRes = [s \in Sessions |-> "none"]

Init ==
    /\ InitCommon
    /\ active = {1}
    /\ quota = [s \in Sessions |-> IF s = 1 THEN MaxPings ELSE 0]

InitDual ==
    /\ InitCommon
    /\ active = Sessions
    /\ quota = [s \in Sessions |-> DualPings]

----------------------------------------------------------------------------
(* Configuration *)

\* Pinger::size
SetSize(s, v) ==
    /\ Built(s) /\ pc[s] = "idle"
    /\ pings[s] < quota[s]
    /\ size[s] # v
    /\ size' = [size EXCEPT ![s] = v]
    /\ UNCHANGED <<now, active, quota, ops, taken, destination, ident, timeout, cache, chan, closed,
                   pc, cur, result, pings, senders, dropped, dropRes>>

----------------------------------------------------------------------------
(* Pinger::ping up to the timeout(...).await *)

\* variant: the sender task is spawned before the packet is built
EncodeErrorExitAfterSpawn(s, seq, err) ==
    /\ result' = [result EXCEPT ![s] = Res(err, seq, NoPacket, 0, 0)]
    /\ senders' = [senders EXCEPT ![s][pings[s] + 1] =
                     [st |-> "spawned", id |-> ident[s], seq |-> seq, inserts |-> 0, failed |-> FALSE]]
    /\ UNCHANGED <<pc, cur>>

\* make_icmpv*_echo_packet(...)? fails: ping returns the error at once
EncodeErrorExit(s, seq, err) ==
    /\ result' = [result EXCEPT ![s] = Res(err, seq, NoPacket, 0, 0)]
    /\ UNCHANGED <<pc, cur, senders>>

Ping(s, seq) ==
    /\ Built(s) /\ pc[s] = "idle"
    /\ pings[s] < quota[s]
    /\ pings' = [pings EXCEPT ![s] = @ + 1]
    /\ LET packet == MakeEchoPacket(ident[s], seq, size[s])
           n == pings[s] + 1
       IN IF ~packet.ok
          THEN EncodeErrorExit(s, seq, packet.err)
          ELSE \* task::spawn(sender); then wait on timeout(self.timeout, recv_reply)
               /\ senders' = [senders EXCEPT ![s][n] =
                                [st |-> "spawned", id |-> ident[s], seq |-> seq, inserts |-> 0, failed |-> FALSE]]
               /\ cur' = [cur EXCEPT ![s] =
                                [seq |-> seq, deadline |-> now + timeout[s], n |-> n, last |-> "none",
                                 sentAt |-> -1]]
               /\ pc' = [pc EXCEPT ![s] = "waiting"]
               /\ result' = [result EXCEPT ![s] = NoResult]
    /\ UNCHANGED <<now, active, quota, ops, taken, destination, ident, size, timeout, cache, chan, closed,
                   dropped, dropRes>>

----------------------------------------------------------------------------
(* The detached sender task *)

\* variant: a send_to error ends the call that spawned the task with an IO error
SenderTransmitSurfacing(s, n, ok) ==
    /\ s \in active
    /\ senders[s][n].st = "spawned"
    /\ senders' = [senders EXCEPT ![s][n].st = IF ok THEN "sentOk" ELSE "sentErr",
                                   ![s][n].failed = ~ok]
    /\ IF ~ok /\ pc[s] = "waiting" /\ cur[s].n = n
       THEN /\ pc' = [pc EXCEPT ![s] = "idle"]
            /\ cur' = [cur EXCEPT ![s] = NoCall]
            /\ result' = [result EXCEPT ![s] =
                            Res("IOError", cur[s].seq, NoPacket, 0, 0)]
            /\ UNCHANGED cache
       ELSE UNCHANGED <<pc, cur, result, cache>>
    /\ UNCHANGED <<now, active, quota, ops, taken, destination, ident, size, timeout, chan, closed,
                   pings, dropped, dropRes>>

\* sender.send_to(&mut packet, &sock_addr).await completes, with or without error
SenderTransmit(s, n, ok) ==
    /\ s \in active
    /\ senders[s][n].st = "spawned"
    /\ senders' = [senders EXCEPT ![s][n].st = IF ok THEN "sentOk" ELSE "sentErr",
                                   ![s][n].failed = ~ok]
    /\ UNCHANGED <<now, active, quota, ops, taken, destination, ident, size, timeout, cache, chan, closed,
                   pc, cur, result, pings, dropped, dropRes>>

\* variant: the insert is made only when send_to succeeded
TransmitSucceeded(st) == st = "sentOk"

\* the send_to await is over, whatever its result: the task goes on to the insert
TransmitDone(st) == st \in {"sentOk", "sentErr"}

\* cache.insert(ident, seq_cnt, Instant::now())
SenderInsert(s, n) ==
    /\ s \in active
    /\ TransmitDone(senders[s][n].st)
    /\ cache' = [cache EXCEPT ![s] =
                   CacheInsert(@, senders[s][n].id, senders[s][n].seq,
                               [time |-> now, by |-> n])]
    /\ senders' = [senders EXCEPT ![s][n] =
                     [st |-> "done", id |-> 0, seq |-> 0, inserts |-> @.inserts + 1,
                      failed |-> @.failed]]
    /\ cur' = [cur EXCEPT ![s].sentAt =
                 IF pc[s] = "waiting" /\ cur[s].n = n THEN now ELSE @]
    /\ UNCHANGED <<now, active, quota, ops, taken, destination, ident, size, timeout, chan, closed,
                   pc, result, pings, dropped, dropRes>>

----------------------------------------------------------------------------
(* Pinger::recv_reply, one loop iteration per step, and the exits of ping *)

\* ping returns r; on the error and timeout paths the entry of the key is removed
Return(s, r, c) ==
    /\ pc' = [pc EXCEPT ![s] = "idle"]
    /\ cur' = [cur EXCEPT ![s] = NoCall]
    /\ result' = [result EXCEPT ![s] = r]
    /\ cache' = [cache EXCEPT ![s] = c]

\* variant: the reply is not tested against the session's ident
IsReplyForAnyIdent(s, p) == p.src = destination[s] /\ p.seq = cur[s].seq

\* packet.check_reply_packet(self.destination, seq_cnt, self.ident)
IsReplyFor(s, p) == CheckReplyPacket(p, destination[s], cur[s].seq, ident[s])

\* variant: no decode error is retried
IsOwnEchoNever(err) == FALSE

\* variant: every decode error is retried
IsOwnEchoAlways(err) == TRUE

\* Err(SurgeError::EchoRequestPacket) => continue
IsOwnEcho(err) == err = "EchoRequestPacket"

RecvReply(s) ==
    /\ Built(s) /\ pc[s] = "waiting"
    /\ chan[s] # << >>
    /\ chan' = [chan EXCEPT ![s] = Tail(@)]
    /\ LET message == Head(chan[s])
           seq == cur[s].seq
           packet == Decode(message.packet, Family(destination[s]))
       IN IF packet.ok
          THEN IF /\ IsReplyFor(s, message.packet)
                  /\ CacheHas(cache[s], ident[s], seq)
               THEN LET ins == cache[s][<<ident[s], seq>>]
                        rest == CacheRemove(cache[s], ident[s], seq)
                    IN IF message.when >= ins.time
                       THEN Return(s, Res("Ok", seq, message.packet,
                                          message.when - ins.time, ins.by), rest)
                       ELSE \* Instant - Instant with a later right-hand side:
                            \* zero (saturating) or a panic, by toolchain version
                            \/ Return(s, Res("Ok", seq, message.packet, 0, ins.by), rest)
                            \/ Return(s, Res("panic", seq, message.packet, 0, ins.by), rest)
               ELSE \* not for this call, or no entry cached: take the next message
                    /\ cur' = [cur EXCEPT ![s].last =
                                 IF IsReplyFor(s, message.packet) THEN "unmatched"
                                 ELSE "discarded"]
                    /\ UNCHANGED <<pc, result, cache>>
          ELSE IF IsOwnEcho(packet.err)
               THEN /\ cur' = [cur EXCEPT ![s].last = "ownEcho"]
                    /\ UNCHANGED <<pc, result, cache>>
               ELSE Return(s, Res(packet.err, seq, NoPacket, 0, 0),
                           CacheRemove(cache[s], ident[s], seq))
    /\ UNCHANGED <<now, active, quota, ops, taken, destination, ident, size, timeout, closed,
                   pings, senders, dropped, dropRes>>

\* variant: a closed channel is reported as a timeout, once the deadline has passed
RecvClosedAsTimeout(s) ==
    /\ Built(s) /\ pc[s] = "waiting"
    /\ chan[s] = << >> /\ closed[s]
    /\ now >= cur[s].deadline
    /\ Return(s, Res("Timeout", cur[s].seq, NoPacket, 0, 0),
              CacheRemove(cache[s], ident[s], cur[s].seq))
    /\ UNCHANGED <<now, active, quota, ops, taken, destination, ident, size, timeout, chan, closed,
                   pings, senders, dropped, dropRes>>

\* self.rx.recv() yields None: NetworkError
RecvClosed(s) ==
    /\ Built(s) /\ pc[s] = "waiting"
    /\ chan[s] = << >> /\ closed[s]
    /\ Return(s, Res("NetworkError", cur[s].seq, NoPacket, 0, 0),
              CacheRemove(cache[s], ident[s], cur[s].seq))
    /\ UNCHANGED <<now, active, quota, ops, taken, destination, ident, size, timeout, chan, closed,
                   pings, senders, dropped, dropRes>>

\* the deadline of timeout(self.timeout, ...) has passed; a message that arrived
\* since the loop was last polled does not stop the timer from winning
Timeout(s) ==
    /\ Built(s) /\ pc[s] = "waiting"
    /\ now >= cur[s].deadline
    /\ Return(s, Res("Timeout", cur[s].seq, NoPacket, 0, 0),
              CacheRemove(cache[s], ident[s], cur[s].seq))
    /\ UNCHANGED <<now, active, quota, ops, taken, destination, ident, size, timeout, chan, closed,
                   pings, senders, dropped, dropRes>>

\* the caller drops the future returned by ping while it is pending: neither of
\* the cache.remove calls on the return paths runs
Cancel(s) ==
    /\ Built(s) /\ pc[s] = "waiting"
    /\ pc' = [pc EXCEPT ![s] = "idle"]
    /\ cur' = [cur EXCEPT ![s] = NoCall]
    /\ result' = [result EXCEPT ![s] = Res("cancelled", cur[s].seq, NoPacket, 0, 0)]
    /\ UNCHANGED <<now, active, quota, ops, taken, destination, ident, size, timeout, cache, chan, closed,
                   pings, senders, dropped, dropRes>>

----------------------------------------------------------------------------
(* impl Drop for Pinger *)

\* variant: the send result is unwrapped
NotifyShutdownUnwrap(s) == IF closed[s] THEN "panic" ELSE "notified"

\* self.shutdown_notify.send(()): an error (no receiver) is only traced
NotifyShutdown(s) == IF closed[s] THEN "swallowed" ELSE "notified"

\* variant: dropping the Pinger aborts the sender tasks that have not finished
DropAbortingSenders(s) ==
    /\ Built(s) /\ pc[s] = "idle"
    /\ dropped' = [dropped EXCEPT ![s] = TRUE]
    /\ dropRes' = [dropRes EXCEPT ![s] = NotifyShutdown(s)]
    /\ chan' = [chan EXCEPT ![s] = << >>]
    /\ senders' = [senders EXCEPT ![s] =
                     [n \in Invocations |->
                        IF senders[s][n].st \in {"spawned", "sentOk", "sentErr"}
                        THEN NoSender ELSE senders[s][n]]]
    /\ UNCHANGED <<now, active, quota, ops, taken, destination, ident, size, timeout, cache, closed,
                   pc, cur, result, pings>>

Drop(s) ==
    /\ Built(s) /\ pc[s] = "idle"
    /\ dropped' = [dropped EXCEPT ![s] = TRUE]
    /\ dropRes' = [dropRes EXCEPT ![s] = NotifyShutdown(s)]
    /\ chan' = [chan EXCEPT ![s] = << >>]   \* rx goes with the Pinger
    /\ UNCHANGED <<now, active, quota, ops, taken, destination, ident, size, timeout, cache, closed,
                   pc, cur, result, pings, senders>>

----------------------------------------------------------------------------
(* Environment: the dispatcher and the clock *)

\* a call is waiting or the caller will make another one
WillReceive(s) == pc[s] = "waiting" \/ pings[s] < quota[s]

\* the dispatcher forwards one inbound datagram to the channels of the sessions in T
\* (a message no call will ever take is not modelled)
Dispatch(p, T) ==
    /\ T # {} /\ T \subseteq active
    /\ \A s \in T : /\ ~dropped[s] /\ ~closed[s] /\ Len(chan[s]) < MaxChan
                    /\ WillReceive(s)
    /\ chan' = [s \in Sessions |->
                  IF s \in T THEN Append(chan[s], [packet |-> p, when |-> now])
                  ELSE chan[s]]
    /\ UNCHANGED <<now, active, quota, ops, taken, destination, ident, size, timeout, cache, closed,
                   pc, cur, result, pings, senders, dropped, dropRes>>

\* the dispatcher goes away: the channel closes and shutdown_notify has no receiver
DispatcherStop(s) ==
    /\ Built(s) /\ ~closed[s]
    /\ closed' = [closed EXCEPT ![s] = TRUE]
    /\ UNCHANGED <<now, active, quota, ops, taken, destination, ident, size, timeout, cache, chan,
                   pc, cur, result, pings, senders, dropped, dropRes>>

Tick ==
    /\ now < MaxTime
    /\ now' = now + 1
    /\ UNCHANGED <<active, quota, ops, taken, destination, ident, size, timeout, cache, chan, closed,
                   pc, cur, result, pings, senders, dropped, dropRes>>

----------------------------------------------------------------------------

\* every step but the cancellation of a call
NextReturning ==
    \/ \E s \in Sessions, v \in Sizes : SetSize(s, v)
    \/ \E s \in Sessions, seq \in Seqs : Ping(s, seq)
    \/ \E s \in Sessions, n \in Invocations, ok \in BOOLEAN : SenderTransmit(s, n, ok)
    \/ \E s \in Sessions, n \in Invocations : SenderInsert(s, n)
    \/ \E s \in Sessions : RecvReply(s)
    \/ \E s \in Sessions : RecvClosed(s)
    \/ \E s \in Sessions : Timeout(s)
    \/ \E s \in Sessions : Drop(s)
    \/ \E p \in Packets, T \in SUBSET Sessions : Dispatch(p, T)
    \/ \E s \in Sessions : DispatcherStop(s)
    \/ Tick

Next ==
    \/ NextReturning
    \/ \E s \in Sessions : Cancel(s)

Spec == Init /\ [][Next]_vars

\* the caller awaits every ping call until it returns
SpecReturning == Init /\ [][NextReturning]_vars

----------------------------------------------------------------------------
(* The Cache on its own: any sequence of insert and remove calls, on the cache *)
(* of session 1, with the number of the call as the ghost of the entry        *)

InitCache ==
    /\ InitCommon
    /\ active = {1}
    /\ quota = [s \in Sessions |-> 0]

\* cache.insert(id, seq, t)
CacheInsertOp(id, seq, t) ==
    /\ Len(ops) < MaxOps
    /\ LET entry == [time |-> t, by |-> Len(ops) + 1]
       IN /\ cache' = [cache EXCEPT ![1] = CacheInsert(@, id, seq, entry)]
          /\ ops' = Append(ops, [op |-> "insert", key |-> <<id, seq>>, entry |-> entry])
    /\ UNCHANGED <<now, active, quota, taken, destination, ident, size, timeout, chan,
                   closed, pc, cur, result, pings, senders, dropped, dropRes>>

\* cache.remove(id, seq)
CacheRemoveOp(id, seq) ==
    /\ Len(ops) < MaxOps
    /\ taken' = CacheTake(cache[1], id, seq)
    /\ cache' = [cache EXCEPT ![1] = CacheRemove(@, id, seq)]
    /\ ops' = Append(ops, [op |-> "remove", key |-> <<id, seq>>, entry |-> NoEntry])
    /\ UNCHANGED <<now, active, quota, destination, ident, size, timeout, chan,
                   closed, pc, cur, result, pings, senders, dropped, dropRes>>

NextCache ==
    \/ \E id \in Idents, seq \in Seqs, t \in 0 .. MaxTime : CacheInsertOp(id, seq, t)
    \/ \E id \in Idents, seq \in Seqs : CacheRemoveOp(id, seq)

SpecCache == InitCache /\ [][NextCache]_vars

\* the clock advances and the timer of timeout(self.timeout, ...) fires: a call
\* whose deadline has passed is woken and returns; the runtime goes on polling a
\* task handed to task::spawn until it completes
SpecLive ==
    /\ Init /\ [][NextReturning]_vars
    /\ WF_vars(Tick)
    /\ \A s \in Sessions : WF_vars(Timeout(s))
    /\ \A s \in Sessions, n \in Invocations :
          /\ WF_vars(\E ok \in BOOLEAN : SenderTransmit(s, n, ok))
          /\ WF_vars(SenderInsert(s, n))

\* two sessions on one dispatcher feed: the calls, their sender tasks and the feed
NextDual ==
    \/ \E s \in Sessions, seq \in Seqs : Ping(s, seq)
    \/ \E s \in Sessions, n \in Invocations, ok \in BOOLEAN : SenderTransmit(s, n, ok)
    \/ \E s \in Sessions, n \in Invocations : SenderInsert(s, n)
    \/ \E s \in Sessions : RecvReply(s)
    \/ \E s \in Sessions : Cancel(s)
    \/ \E p \in Packets, T \in SUBSET Sessions : Dispatch(p, T)

SpecDual == InitDual /\ [][NextDual]_vars

----------------------------------------------------------------------------
(* Properties *)

Key(s, seq) == <<ident[s], seq>>

\* the kinds of result with which ping returns to its caller
ReturnKinds == {"Ok", "Timeout", "NetworkError", "MalformedPacket", "IncorrectBufferSize"}

Returned(s) == pc[s] = "idle" /\ result[s].kind \in ReturnKinds

\* this step of the receive loop takes a message that decodes to a reply for
\* the waiting call's (destination, seq_cnt, ident)
TakesMatch(s) ==
    /\ pc[s] = "waiting" /\ chan[s] # << >>
    /\ chan'[s] = Tail(chan[s])
    /\ Decode(Head(chan[s]).packet, Family(destination[s])).ok
    /\ CheckReplyPacket(Head(chan[s]).packet, destination[s], cur[s].seq, ident[s])

\* C1: once a ping call has returned (success, timeout or error), the cache
\* holds no entry for the key (ident, seq_cnt) of that call, whatever the
\* detached sender does.
C1_NoEntryAfterReturn ==
    \A s \in Sessions :
        Returned(s) => ~CacheHas(cache[s], ident[s], result[s].seq)

\* C2: when the receive loop takes a matching reply that was delivered strictly
\* after the insert of the call's own sender and before the deadline, ping returns Ok with the
\* non-negative duration message.when - ins, and the key is no longer cached.
C2_ReplyAfterInsertSucceeds ==
    [][\A s \in Sessions :
          ( /\ TakesMatch(s)
            /\ senders[s][cur[s].n].st = "done"
            /\ Head(chan[s]).when > cur[s].sentAt
            /\ Head(chan[s]).when < cur[s].deadline )
          => ( /\ CacheHas(cache[s], ident[s], cur[s].seq)
               /\ pc'[s] = "idle"
               /\ result'[s].kind = "Ok"
               /\ result'[s].dur = Head(chan[s]).when - cache[s][Key(s, cur[s].seq)].time
               /\ result'[s].dur >= 0
               /\ ~CacheHas(cache'[s], ident[s], cur[s].seq) )]_vars

\* C3: a call that ends by the deadline returns Timeout with its own seq_cnt, not
\* before the configured timeout has elapsed, and no entry for its key is left
\* in the cache after it.
C3_TimeoutLeavesNothing ==
    [][\A s \in Sessions :
          /\ (pc[s] = "waiting" /\ result'[s].kind = "Timeout")
                => (result'[s].seq = cur[s].seq /\ now >= cur[s].deadline)
          /\ (pc'[s] = "idle" /\ result'[s].kind = "Timeout")
                => ~CacheHas(cache'[s], ident[s], result'[s].seq)]_vars

\* C4: ping returns Ok only by taking from its own channel a message whose
\* decoded packet is a reply for exactly (destination, seq_cnt, ident) of the
\* waiting call; any other reply leaves the call unresolved.
C4_NoMisattribution ==
    [][\A s \in Sessions :
          /\ (pc[s] = "waiting" /\ result'[s].kind = "Ok")
                => ( /\ TakesMatch(s)
                     /\ result'[s].pkt = Head(chan[s]).packet
                     /\ result'[s].seq = cur[s].seq )
          /\ ( /\ pc[s] = "waiting" /\ chan[s] # << >>
               /\ chan'[s] = Tail(chan[s])
               /\ Head(chan[s]).packet.type = "EchoReply"
               /\ \/ Head(chan[s]).packet.id # ident[s]
                  \/ Head(chan[s]).packet.src # destination[s]
                  \/ Head(chan[s]).packet.seq # cur[s].seq )
                => (pc'[s] = "waiting" /\ result'[s] = result[s])]_vars

\* C4 witness: session 1 has returned Ok with its reply, and session 2, waiting
\* on the same seq_cnt with its key cached, has taken a reply and discarded it
C4_Witness ==
    /\ result[1].kind = "Ok"
    /\ pc[2] = "waiting" /\ cur[2].last = "discarded"
    /\ CacheHas(cache[2], ident[2], cur[2].seq)
    /\ cur[2].seq = result[1].seq

\* C5: a call starts with an empty cache, and the send timestamp used for an Ok
\* result was recorded by the sender of the call that returns it.
C5_NoLeakAcrossCalls ==
    [][\A s \in Sessions :
          /\ (pings'[s] = pings[s] + 1) => cache[s] = CacheNew
          /\ (pc[s] = "waiting" /\ result'[s].kind = "Ok")
                => result'[s].by = cur[s].n]_vars

\* C6: a message that decodes as the session's own echo request leaves the
\* call waiting: nothing is returned and the loop goes on.
C6_OwnEchoDiscarded ==
    [][\A s \in Sessions :
          ( /\ pc[s] = "waiting" /\ chan[s] # << >>
            /\ chan'[s] = Tail(chan[s])
            /\ Head(chan[s]).packet.type = "EchoRequest" )
          => ( /\ pc'[s] = "waiting"
               /\ result'[s] = NoResult
               /\ cur'[s] = [cur[s] EXCEPT !.last = "ownEcho"]
               /\ cache'[s] = cache[s] )]_vars

\* C6 witness: the call is still waiting, its key cached, after an own echo
\* request was queued for it and taken
C6_Witness ==
    \E s \in Sessions :
        /\ pc[s] = "waiting" /\ cur[s].last = "ownEcho"
        /\ CacheHas(cache[s], ident[s], cur[s].seq)

\* C7: a ping whose packet cannot be encoded returns that error and spawns no
\* sender, transmits nothing, leaves the cache and the channel as they were.
C7_EncodeErrorNoEffect ==
    [][\A s \in Sessions :
          ( /\ pings'[s] = pings[s] + 1
            /\ ~MakeEchoPacket(ident[s], result'[s].seq, size[s]).ok )
          => ( /\ result'[s].kind = "IncorrectBufferSize"
               /\ pc'[s] = "idle"
               /\ senders'[s] = senders[s]
               /\ cache'[s] = cache[s]
               /\ chan'[s] = chan[s] )]_vars

\* C7 witness: a ping returned the encoding error while the cache held an entry
\* and a message was queued
C7_Witness ==
    \E s \in Sessions :
        /\ result[s].kind = "IncorrectBufferSize"
        /\ cache[s] # CacheNew
        /\ chan[s] # << >>
        /\ senders[s][pings[s]].st = "none"

\* C8: when no ping call of the session is in progress its cache is empty.
C8_IdleCacheEmpty ==
    \A s \in Sessions : pc[s] = "idle" => cache[s] = CacheNew

\* C9: dropping the Pinger is always possible when no call holds it, also with a
\* sender task still running; it publishes the shutdown signal exactly once and
\* a publish without receiver counts as done, not as a failure.
C9_DropNeverFails ==
    /\ [](\A s \in Sessions : (Built(s) /\ pc[s] = "idle") => ENABLED Drop(s))
    /\ [][\A s \in Sessions :
            /\ (~dropped[s] /\ dropped'[s])
                  => ( /\ dropRes[s] = "none"
                       /\ dropRes'[s] = IF closed[s] THEN "swallowed" ELSE "notified" )
            /\ dropped[s] => (dropped'[s] /\ dropRes'[s] = dropRes[s])
            /\ (~dropped'[s]) => dropRes'[s] = "none"]_vars

\* C9 witness: the Pinger was dropped without any receiver of the signal while
\* a sender task of an earlier ping had not finished
C9_Witness ==
    \E s \in Sessions :
        /\ dropped[s] /\ dropRes[s] = "swallowed"
        /\ \E n \in Invocations : senders[s][n].st \in {"spawned", "sentOk", "sentErr"}

\* C10: after a waiting ping call was cancelled the cache holds no entry for
\* that call's key.
C10_CancelCleansUp ==
    \A s \in Sessions :
        (pc[s] = "idle" /\ result[s].kind = "cancelled")
            => ~CacheHas(cache[s], ident[s], result[s].seq)

\* C11: a matching reply taken before the call's own sender has made its insert
\* is discarded and the call goes on waiting; with nothing further in the
\* channel the call then ends only by the deadline, with Timeout.
C11_EarlyReplyDiscarded ==
    [][\A s \in Sessions :
          /\ (TakesMatch(s) /\ cur[s].sentAt = -1)
                => ( /\ pc'[s] = "waiting"
                     /\ result'[s] = NoResult
                     /\ cur'[s].last = "unmatched" )
          /\ ( /\ pc[s] = "waiting" /\ cur[s].last = "unmatched"
               /\ chan[s] = << >> /\ ~closed[s]
               /\ pc'[s] = "idle" )
                => ( /\ result'[s].kind = "Timeout"
                     /\ result'[s].seq = cur[s].seq
                     /\ now >= cur[s].deadline )]_vars

\* C12: every sender task makes its cache insert at most once, only when its
\* send_to has completed, and it can make it after a failed send_to as after a
\* successful one; the insert writes (ident, seq_cnt) -> now.
C12_InsertOnceAfterTransmit ==
    /\ [](\A s \in Sessions, n \in Invocations :
            /\ senders[s][n].inserts = (IF senders[s][n].st = "done" THEN 1 ELSE 0)
            /\ (s \in active /\ senders[s][n].st \in {"sentOk", "sentErr"})
                  => ENABLED SenderInsert(s, n))
    /\ [][\A s \in Sessions, n \in Invocations :
            (senders'[s][n].inserts # senders[s][n].inserts)
                => ( /\ senders[s][n].st \in {"sentOk", "sentErr"}
                     /\ senders[s][n].failed = (senders[s][n].st = "sentErr")
                     /\ senders'[s][n].st = "done"
                     /\ CacheHas(cache'[s], senders[s][n].id, senders[s][n].seq)
                     /\ cache'[s][<<senders[s][n].id, senders[s][n].seq>>]
                           = [time |-> now, by |-> n] )]_vars

\* C12 witness: a sender whose send_to failed has made its one insert, and the
\* entry it wrote is in the cache
C12_Witness ==
    \E s \in Sessions, n \in Invocations :
        /\ senders[s][n].st = "done" /\ senders[s][n].failed
        /\ senders[s][n].inserts = 1
        /\ \E k \in DOMAIN cache[s] : cache[s][k].by = n

\* C13: a failed send_to is not surfaced to the waiting call: no call ends with
\* an IO error, the failing step leaves the call as it was, and a call whose own
\* send failed ends only by taking a matching reply, by the deadline, by a decode
\* error or by the closure of the channel.
C13_SendFailureNotSurfaced ==
    /\ [](\A s \in Sessions : result[s].kind # "IOError")
    /\ [][\A s \in Sessions :
            /\ (\E n \in Invocations :
                   senders[s][n].st = "spawned" /\ senders'[s][n].st = "sentErr")
                  => (pc'[s] = pc[s] /\ cur'[s] = cur[s] /\ result'[s] = result[s])
            /\ ( /\ pc[s] = "waiting" /\ pc'[s] = "idle"
                 /\ senders[s][cur[s].n].failed )
                  => \/ TakesMatch(s) /\ CacheHas(cache[s], ident[s], cur[s].seq)
                     \/ result'[s].kind = "Timeout" /\ now >= cur[s].deadline
                     \/ /\ result'[s].kind = "MalformedPacket"
                        /\ chan[s] # << >>
                        /\ ~Decode(Head(chan[s]).packet, Family(destination[s])).ok
                     \/ /\ result'[s].kind = "NetworkError"
                        /\ chan[s] = << >> /\ closed[s]]_vars

\* C13 witness: the call's own send_to failed, and the call went on to return Ok
\* with the entry that sender inserted
C13_Witness ==
    \E s \in Sessions :
        /\ pc[s] = "idle" /\ result[s].kind = "Ok"
        /\ result[s].by = pings[s]
        /\ senders[s][pings[s]].failed /\ senders[s][pings[s]].st = "done"

\* C14: the step that takes a message whose decode fails with an error other than
\* EchoRequestPacket ends the call at once with that error, whatever the clock
\* and whatever else is queued, and removes the entry of (ident, seq); such a
\* message is taken as soon as it heads the channel of a waiting call.
C14_DecodeErrorTerminal ==
    /\ [](\A s \in Sessions :
            (pc[s] = "waiting" /\ chan[s] # << >>) => ENABLED RecvReply(s))
    /\ [][\A s \in Sessions :
            ( /\ pc[s] = "waiting" /\ chan[s] # << >>
              /\ chan'[s] = Tail(chan[s])
              /\ ~Decode(Head(chan[s]).packet, Family(destination[s])).ok
              /\ Decode(Head(chan[s]).packet, Family(destination[s])).err
                    # "EchoRequestPacket" )
                => ( /\ pc'[s] = "idle"
                     /\ result'[s] =
                           Res(Decode(Head(chan[s]).packet, Family(destination[s])).err,
                               cur[s].seq, NoPacket, 0, 0)
                     /\ cache'[s] = CacheRemove(cache[s], ident[s], cur[s].seq)
                     /\ ~CacheHas(cache'[s], ident[s], cur[s].seq) )]_vars

\* C14 witness: the first call returned MalformedPacket before its deadline, after
\* its sender had inserted, and the entry is gone
C14_Witness ==
    \E s \in Sessions :
        /\ pc[s] = "idle" /\ pings[s] = 1
        /\ result[s].kind = "MalformedPacket"
        /\ now < DefaultTimeout
        /\ senders[s][1].st = "done"
        /\ ~CacheHas(cache[s], ident[s], result[s].seq)

\* C15: a waiting call whose channel is empty and closed can return at once,
\* before its deadline, and when it returns before the deadline it returns
\* NetworkError and the entry of (ident, seq) has been removed.
C15_ClosedChannelNetworkError ==
    /\ [](\A s \in Sessions :
            (pc[s] = "waiting" /\ chan[s] = << >> /\ closed[s])
                => ENABLED RecvClosed(s))
    /\ [][\A s \in Sessions :
            ( /\ pc[s] = "waiting" /\ chan[s] = << >> /\ closed[s]
              /\ now < cur[s].deadline
              /\ pc'[s] = "idle" )
                => ( /\ result'[s] = Res("NetworkError", cur[s].seq, NoPacket, 0, 0)
                     /\ cache'[s] = CacheRemove(cache[s], ident[s], cur[s].seq)
                     /\ ~CacheHas(cache'[s], ident[s], cur[s].seq) )]_vars

\* C15 witness: the first call returned NetworkError before its deadline, after
\* its sender had inserted, and the entry is gone
C15_Witness ==
    \E s \in Sessions :
        /\ pc[s] = "idle" /\ pings[s] = 1
        /\ result[s].kind = "NetworkError"
        /\ closed[s] /\ now < DefaultTimeout
        /\ senders[s][1].st = "done"
        /\ ~CacheHas(cache[s], ident[s], result[s].seq)

\* C16: every call that was encoded and whose deadline the clock reaches comes to
\* an end; it ends in one of Ok (matched), Timeout, or an error (MalformedPacket,
\* NetworkError), and an end that takes no message and finds no closed channel
\* is a Timeout at or after the deadline.
C16_EveryCallResolves ==
    /\ \A s \in Sessions :
          (pc[s] = "waiting" /\ cur[s].deadline <= MaxTime) ~> (pc[s] = "idle")
    /\ [][\A s \in Sessions :
            (pc[s] = "waiting" /\ pc'[s] = "idle")
                => /\ result'[s].kind
                         \in {"Ok", "Timeout", "MalformedPacket", "NetworkError"}
                   /\ result'[s].seq = cur[s].seq
                   /\ (chan'[s] = chan[s] /\ ~(chan[s] = << >> /\ closed[s]))
                         => ( /\ result'[s].kind = "Timeout"
                              /\ now >= cur[s].deadline )]_vars

\* a sender task that was spawned and has not made its insert yet
Pending(s, n) == senders[s][n].st \in {"spawned", "sentOk", "sentErr"}

\* C17: the end of the call and the drop of the Pinger leave every sender task as
\* it is; a pending sender can always take its next step, also when its call has
\* ended and the Pinger is dropped, and it goes on to its transmit attempt and
\* then to its insert.
C17_SenderOutlivesCall ==
    /\ [](\A s \in Sessions, n \in Invocations :
            /\ senders[s][n].st = "spawned"
                  => ENABLED (\E ok \in BOOLEAN : SenderTransmit(s, n, ok))
            /\ senders[s][n].st \in {"sentOk", "sentErr"}
                  => ENABLED SenderInsert(s, n))
    /\ [][\A s \in Sessions, n \in Invocations :
            /\ (pc[s] = "waiting" /\ pc'[s] = "idle") => senders'[s] = senders[s]
            /\ (dropped'[s] # dropped[s]) => senders'[s] = senders[s]
            /\ (senders[s][n].st = "spawned")
                  => senders'[s][n].st \in {"spawned", "sentOk", "sentErr"}
            /\ (senders[s][n].st \in {"sentOk", "sentErr"})
                  => senders'[s][n].st \in {senders[s][n].st, "done"}]_vars
    /\ \A s \in Sessions, n \in Invocations :
          Pending(s, n) ~> (senders[s][n].st = "done")

\* C17 witness: the Pinger is dropped; the sender of one call made its insert after
\* that call had returned, and the sender of another call is still pending
C17_Witness ==
    \E s \in Sessions :
        /\ dropped[s] /\ pc[s] = "idle"
        /\ \E n \in Invocations :
              /\ senders[s][n].st = "done"
              /\ \E k \in DOMAIN cache[s] : cache[s][k].by = n
        /\ \E m \in Invocations : Pending(s, m)

\* the entry a remove of key k returns after the calls of h, read off the calls:
\* that of the last insert of k, unless a remove of k came after it
RECURSIVE LastWrite(_, _)
LastWrite(h, k) ==
    IF h = << >> THEN NoTaken
    ELSE LET last == h[Len(h)]
         IN IF last.key = k
            THEN IF last.op = "insert" THEN [some |-> TRUE, entry |-> last.entry]
                 ELSE NoTaken
            ELSE LastWrite(SubSeq(h, 1, Len(h) - 1), k)

\* C18: after any sequence of inserts and removes the cache holds, for every key,
\* the entry of the last insert of the key that no remove of the key followed,
\* and nothing else; a remove returns that entry or nothing, leaves the key
\* absent, so that a repeated remove returns nothing, and leaves the entries of
\* the other keys as they were.
C18_LastWriterWinsAtomicTake ==
    /\ [](\A k \in Token : CacheTake(cache[1], k[1], k[2]) = LastWrite(ops, k))
    /\ [][\A k \in Token :
            (ops' = Append(ops, [op |-> "remove", key |-> k, entry |-> NoEntry]))
                => ( /\ taken' = LastWrite(ops, k)
                     /\ ~CacheHas(cache'[1], k[1], k[2])
                     /\ CacheTake(cache'[1], k[1], k[2]) = NoTaken
                     /\ \A j \in Token \ {k} :
                           CacheTake(cache'[1], j[1], j[2])
                              = CacheTake(cache[1], j[1], j[2]) )]_vars

\* C18 witness: a key was inserted twice, and a remove has returned the entry of
\* the second insert while an entry of another key stays cached
C18_Witness ==
    /\ Len(ops) = 4
    /\ ops[1].op = "insert" /\ ops[2].op = "insert" /\ ops[3].op = "insert"
    /\ ops[1].key = ops[3].key /\ ops[2].key # ops[1].key
    /\ ops[1].entry.time # ops[3].entry.time
    /\ ops[4] = [op |-> "remove", key |-> ops[1].key, entry |-> NoEntry]
    /\ taken = [some |-> TRUE, entry |-> ops[3].entry]
    /\ DOMAIN cache[1] = {ops[2].key}

\* C19: whenever a waiting call takes a matching reply with an entry cached for
\* its key, the reply's receipt time is not earlier than the entry's time, and
\* the call returns Ok with their difference.
C19_NoUnderflowOnSuccess ==
    [][\A s \in Sessions :
          (TakesMatch(s) /\ CacheHas(cache[s], ident[s], cur[s].seq))
              => ( /\ Head(chan[s]).when >= cache[s][Key(s, cur[s].seq)].time
                   /\ result'[s].kind = "Ok"
                   /\ result'[s].dur
                         = Head(chan[s]).when - cache[s][Key(s, cur[s].seq)].time )]_vars

====
